---- MODULE Spec2Model ----
(***************************************************************************)
(* Model of the useWebSocket hook (the resilient realtime channel):        *)
(* connection lifecycle, heartbeat liveness detection and exponential      *)
(* backoff reconnection.  Source: src/scripts/test-npm-detection.js        *)
(* lines 86-295 (apps/web/hooks/useWebSocket.ts).                          *)
(*                                                                         *)
(* Time is in milliseconds.  Timers are ideal: a setTimeout/setInterval    *)
(* callback runs at the instant it is due, and time does not advance past  *)
(* a due callback.  Transport events (open, close, error, message) are     *)
(* delivered by the environment at any instant.  Every callback runs to    *)
(* completion (single-threaded event loop), so each is one action.         *)
(*                                                                         *)
(* The program's behaviour does not depend on the absolute value of        *)
(* Date.now(), only on differences.  Every timestamp and due time is       *)
(* therefore kept relative to the present instant: a timer handle holds    *)
(* the time remaining until its callback is due, and lastPongRef is held   *)
(* as timeSinceLastPong == Date.now() - lastPongRef.current.  A difference *)
(* that has passed the largest value it is ever compared with stops        *)
(* growing.                                                                *)
(***************************************************************************)
EXTENDS Integers, Sequences, FiniteSets, TLC

\* ---- program constants -------------------------------------------------
maxReconnectAttempts == 5
baseReconnectDelay == 2000
maxReconnectDelay == 30000
heartbeatInterval == 60000
pongTimeout == 15000
NORMAL_CLOSURE == 1000

\* ---- bounds of the model -----------------------------------------------
TimeStep == 60000     \* largest single advance of the clock
MaxSockets == 2       \* WebSocket objects not yet closed at one time
MaxTimers == 2        \* reconnect timeouts pending at one time
MaxOps == 2           \* calls made by the owning component after mount

\* close codes the transport can report: normal, no status, abnormal
CloseCodes == {1000, 1005, 1006}

VARIABLES
  phase,                  \* "init" | "mounted" | "unmounted" (owning component)
  urlValid,               \* whether new WebSocket(fullUrl) succeeds
  errSock,                \* socket whose error event ran and whose close event follows in the same task
  opsLeft,                \* remaining owner calls
  wsRef,                  \* the WebSocket object wsRef.current refers to (readyState "null": null)
  orphans,                \* WebSocket objects not yet closed that wsRef no longer refers to: kind -> count
  reconnectTimeoutRef,    \* reconnectTimeoutRef.current: -2 null, -1 handle of a timeout that ran, else time until due
  strayTimers,            \* pending timeouts whose handle was overwritten: times until due, ascending
  heartbeatIntervalRef,   \* heartbeatIntervalRef.current: -1 null, else the time until the next tick
  connectionAttemptsRef,
  shouldReconnectRef,
  timeSinceLastPong,      \* Date.now() - lastPongRef.current
  isConnected,
  connectionStatus,
  ev,                     \* what the last callback did (observation only)
  afterDisconnect,        \* disconnect() ran on a connected controller and no session was started since
  exhausted,              \* the attempt cap was hit and the owner has not acted since
  lastDelay,              \* delay of the last retry scheduled since attempts was last reset (0: none)
  hbFresh,                \* the heartbeat was started and has not ticked yet
  teardownAttempts,       \* connectionAttemptsRef when disconnect() first tore the session down (-1: no teardown in effect)
  projectId,              \* usePinnedMessages: the projectId prop
  pinnedMessageIds,       \* usePinnedMessages: the Set in state, as its elements in insertion order
  localStorage,           \* project -> the item stored under pinned-messages-<project>
  pinnedWhile             \* project -> ids passed to pinMessage while that project was current (history)

vars == <<phase, urlValid, errSock, opsLeft, wsRef, orphans, reconnectTimeoutRef,
          strayTimers, heartbeatIntervalRef, connectionAttemptsRef,
          shouldReconnectRef, timeSinceLastPong, isConnected, connectionStatus,
          ev, afterDisconnect, exhausted, lastDelay, hbFresh, teardownAttempts,
          projectId, pinnedMessageIds, localStorage, pinnedWhile>>

\* the state of usePinnedMessages, and the rest (useWebSocket)
pinVars == <<projectId, pinnedMessageIds, localStorage, pinnedWhile>>
hookVars == <<phase, urlValid, errSock, opsLeft, wsRef, orphans, reconnectTimeoutRef,
              strayTimers, heartbeatIntervalRef, connectionAttemptsRef,
              shouldReconnectRef, timeSinceLastPong, isConnected, connectionStatus,
              ev, afterDisconnect, exhausted, lastDelay, hbFresh, teardownAttempts>>

Min(a, b) == IF a <= b THEN a ELSE b

\* A WebSocket object.  closeReq remembers the local close() call: "none",
\* "c1000" (close(1000, ...)) or "nocode" (close()).  opened and gotPong are
\* history of the connection; openFor is the time since its open event,
\* followed only while the socket is open and no 'pong' has arrived on it.
NullSock == [readyState |-> "null", closeReq |-> "none", opened |-> FALSE,
             gotPong |-> FALSE, openFor |-> 0]
ClosedSock == [NullSock EXCEPT !.readyState = "CLOSED"]
NewSock == [NullSock EXCEPT !.readyState = "CONNECTING"]

Live == {"CONNECTING", "OPEN", "CLOSING"}

\* The sockets wsRef no longer refers to are told apart only by what can
\* still happen to them.
Kinds == <<
  [readyState |-> "CONNECTING", closeReq |-> "none", opened |-> FALSE],
  [readyState |-> "OPEN", closeReq |-> "none", opened |-> TRUE],
  [readyState |-> "CLOSING", closeReq |-> "c1000", opened |-> FALSE],
  [readyState |-> "CLOSING", closeReq |-> "c1000", opened |-> TRUE],
  [readyState |-> "CLOSING", closeReq |-> "nocode", opened |-> TRUE],
  [readyState |-> "CLOSING", closeReq |-> "none", opened |-> TRUE] >>
KindIds == DOMAIN Kinds
Strip(sk) == [readyState |-> sk.readyState, closeReq |-> sk.closeReq, opened |-> sk.opened]
KindOf(sk) == CHOOSE i \in KindIds : Kinds[i] = Strip(sk)

RECURSIVE SumTo(_, _)
SumTo(f, n) == IF n = 0 THEN 0 ELSE f[n] + SumTo(f, n - 1)

\* ---- inbound frames ------------------------------------------------------
\* A raw text frame, by what the dispatcher can tell apart.  kind: "pong" (the
\* text 'pong'), "text" (not JSON), "null" (the JSON text null), "scalar" (a
\* JSON number or string), "object" (a JSON object with the fields below).
\* data: "absent" (undefined), "zero" (0), "text" (a non-empty string),
\* "obj" ({x: 1}), "objWithRequestId" ({x: 1, request_id: 'q1'}).
Types == {"message", "preview_error", "preview_success", "project_status",
          "status", "act_start", "chat_start", "act_complete", "chat_complete",
          "unknown_type", "absent"}
DataVals == {"absent", "zero", "text", "obj", "objWithRequestId"}
RequestIds == {"absent", "r1"}
StatusVals == {"running"}

NoFrame == [kind |-> "none", type |-> "absent", data |-> "absent",
            requestId |-> "absent", status |-> "absent"]
Frames ==
  {[NoFrame EXCEPT !.kind = k] : k \in {"pong", "text", "null", "scalar"}}
    \cup [kind : {"object"}, type : Types, data : DataVals,
          requestId : RequestIds, status : StatusVals]

\* the handlers the owner passed to the hook (each is optional); throws: the
\* handlers raise an exception when called
Handlers ==
  {h \in [onMessage : BOOLEAN, onStatus : BOOLEAN, throws : BOOLEAN] :
     h.throws => (h.onMessage /\ h.onStatus)}

NoEv(op, s, code) ==
  [op |-> op, sock |-> IF s = 0 THEN 0 ELSE 1, code |-> code, connectCalls |-> 0, created |-> 0,
   onError |-> 0, onConnect |-> 0, onDisconnect |-> 0, pings |-> 0,
   hbClosed |-> FALSE, firstTick |-> FALSE, scheduled |-> 0,
   exhausted |-> FALSE, overflow |-> FALSE,
   frame |-> NoFrame,
   handlers |-> [onMessage |-> FALSE, onStatus |-> FALSE, throws |-> FALSE],
   parsed |-> FALSE, threw |-> FALSE, escaped |-> FALSE, onMessage |-> <<>>, onStatus |-> <<>>,
   sent |-> 0, warned |-> FALSE, closed |-> 0, again |-> FALSE]

\* The hook's refs and state as one value, so that callbacks compose.
Cur(op, s, code) ==
  [wsRef |-> wsRef, orphans |-> orphans,
   reconnectTimeoutRef |-> reconnectTimeoutRef,
   strayTimers |-> strayTimers,
   heartbeatIntervalRef |-> heartbeatIntervalRef,
   connectionAttemptsRef |-> connectionAttemptsRef,
   shouldReconnectRef |-> shouldReconnectRef,
   timeSinceLastPong |-> timeSinceLastPong,
   isConnected |-> isConnected,
   connectionStatus |-> connectionStatus,
   ev |-> NoEv(op, s, code)]

Set(st) ==
  /\ ~st.ev.overflow
  /\ UNCHANGED pinVars
  /\ wsRef' = st.wsRef
  /\ orphans' = st.orphans
  /\ reconnectTimeoutRef' = st.reconnectTimeoutRef
  /\ strayTimers' = st.strayTimers
  /\ heartbeatIntervalRef' = st.heartbeatIntervalRef
  /\ connectionAttemptsRef' = st.connectionAttemptsRef
  /\ shouldReconnectRef' = st.shouldReconnectRef
  /\ timeSinceLastPong' = st.timeSinceLastPong
  /\ isConnected' = st.isConnected
  /\ connectionStatus' = st.connectionStatus
  /\ ev' = st.ev

\* wsRef.current?.readyState
ReadyState(st) == st.wsRef.readyState

\* number of WebSocket objects that are connecting, open or closing
LiveSockets(st) ==
  (IF st.wsRef.readyState \in Live THEN 1 ELSE 0) + SumTo(st.orphans, Len(Kinds))

\* number of pending reconnect timeouts
PendingTimers(st) ==
  (IF st.reconnectTimeoutRef >= 0 THEN 1 ELSE 0) + Len(st.strayTimers)

\* wsRef.current is assigned: the object it referred to lives on if not closed
Assign(st, sk) ==
  LET old == st.wsRef IN
  [st EXCEPT !.wsRef = sk,
             !.orphans = IF old.readyState \in Live
                         THEN [@ EXCEPT ![KindOf(old)] = @ + 1]
                         ELSE @]

RECURSIVE Insert(_, _)
Insert(seq, r) ==
  IF seq = <<>> THEN <<r>>
  ELSE IF r <= Head(seq) THEN <<r>> \o seq
  ELSE <<Head(seq)>> \o Insert(Tail(seq), r)

\* the backoff without its cap
ReconnectDelay_NoCap(attempts) == baseReconnectDelay * (2 ^ attempts)

\* Math.min(baseReconnectDelay * Math.pow(2, attempts), 30000)
ReconnectDelay(attempts) == Min(baseReconnectDelay * (2 ^ attempts), maxReconnectDelay)

\* a setTimeout that never registers the callback
SetReconnectTimeout_Dropped(st, delay) == st

\* reconnectTimeoutRef.current = setTimeout(..., delay): a pending timeout
\* whose handle is overwritten stays pending
SetReconnectTimeout(st, delay) ==
  [st EXCEPT !.reconnectTimeoutRef = delay,
             !.strayTimers = IF st.reconnectTimeoutRef >= 0
                             THEN Insert(@, st.reconnectTimeoutRef)
                             ELSE @]

\* clearInterval of the previous handle, then setInterval(..., heartbeatInterval)
startHeartbeat(st) == [st EXCEPT !.heartbeatIntervalRef = heartbeatInterval]

stopHeartbeat(st) == [st EXCEPT !.heartbeatIntervalRef = -1]

\* WebSocket.close(): only a socket that is connecting or open starts closing
SockClose(sk, req) ==
  IF sk.readyState \in {"CONNECTING", "OPEN"}
  THEN [sk EXCEPT !.readyState = "CLOSING", !.closeReq = req]
  ELSE sk

\* connect() without the shouldReconnect check
connect_IgnoresTeardown(st) ==
  LET st0 == [st EXCEPT !.ev.connectCalls = @ + 1] IN
  IF ReadyState(st0) = "OPEN" THEN st0
  ELSE
    LET st1 == [st0 EXCEPT !.connectionStatus =
                  IF st0.connectionAttemptsRef = 0 THEN "connecting" ELSE "reconnecting"]
    IN IF ~urlValid
       THEN [st1 EXCEPT !.ev.onError = @ + 1]
       ELSE IF LiveSockets(st1) >= MaxSockets
            THEN [st1 EXCEPT !.ev.overflow = TRUE]
            ELSE [Assign(st1, NewSock) EXCEPT !.ev.created = @ + 1]

connect(st) ==
  LET st0 == [st EXCEPT !.ev.connectCalls = @ + 1] IN
  IF ReadyState(st0) = "OPEN" THEN st0
  ELSE IF ~st0.shouldReconnectRef THEN st0
  ELSE
    LET st1 == [st0 EXCEPT !.connectionStatus =
                  IF st0.connectionAttemptsRef = 0 THEN "connecting" ELSE "reconnecting"]
    IN IF ~urlValid
       THEN [st1 EXCEPT !.ev.onError = @ + 1]
       ELSE IF LiveSockets(st1) >= MaxSockets
            THEN [st1 EXCEPT !.ev.overflow = TRUE]
            ELSE [Assign(st1, NewSock) EXCEPT !.ev.created = @ + 1]

disconnect(st) ==
  LET st1 == [st EXCEPT !.shouldReconnectRef = FALSE]
      st2 == IF st1.reconnectTimeoutRef # -2
             THEN [st1 EXCEPT !.reconnectTimeoutRef = -2]
             ELSE st1
      st3 == stopHeartbeat(st2)
      st4 == IF st3.wsRef.readyState # "null"
             THEN [Assign([st3 EXCEPT !.wsRef = SockClose(@, "c1000")], NullSock)
                     EXCEPT !.ev.closed = @ + 1]
             ELSE st3
  IN [st4 EXCEPT !.isConnected = FALSE, !.connectionStatus = "disconnected"]

\* the body of useEffect(..., [projectId])
effect(st) ==
  connect([st EXCEPT !.shouldReconnectRef = TRUE, !.connectionAttemptsRef = 0])

\* onopen that leaves connectionAttemptsRef as it was
onopen_KeepAttempts(st) ==
  LET st1 == [st EXCEPT !.isConnected = TRUE,
                        !.connectionStatus = "connected",
                        !.timeSinceLastPong = 0]
  IN [startHeartbeat(st1) EXCEPT !.ev.onConnect = @ + 1]

\* onopen that leaves lastPongRef as it was
onopen_KeepLastPong(st) ==
  LET st1 == [st EXCEPT !.isConnected = TRUE,
                        !.connectionStatus = "connected",
                        !.connectionAttemptsRef = 0]
  IN [startHeartbeat(st1) EXCEPT !.ev.onConnect = @ + 1]

onopen(st) ==
  LET st1 == [st EXCEPT !.isConnected = TRUE,
                        !.connectionStatus = "connected",
                        !.connectionAttemptsRef = 0,
                        !.timeSinceLastPong = 0]
  IN [startHeartbeat(st1) EXCEPT !.ev.onConnect = @ + 1]

\* ws.onmessage for the frame 'pong'
onpong(st) ==
  [st EXCEPT !.timeSinceLastPong = 0]

\* JavaScript truthiness of the envelope's data
Truthy(d) == d \in {"text", "obj", "objWithRequestId"}

\* data.data?.request_id
RequestIdOf(d) == IF d = "objWithRequestId" THEN "q1" ELSE "undefined"

\* an argument passed to a handler: the envelope's data, the whole envelope,
\* or the object {status: data.status, message: data.message}
Arg(part, f) == [part |-> part, of |-> f]

\* the chain with the 'message' branch forwarding the whole envelope
dispatch_MessageForwardsEnvelope(st, f, h) ==
  LET t == f.type
      payload == Arg("data", f)
  IN IF t \in {"message", "preview_error", "preview_success"} /\ h.onMessage
     THEN [st EXCEPT !.ev.onMessage = Append(@, Arg("envelope", f)), !.ev.threw = h.throws]
     ELSE IF t \in {"project_status", "status"} /\ h.onStatus
     THEN [st EXCEPT !.ev.onStatus = Append(@,
             [name |-> "project_status",
              payload |-> IF Truthy(f.data) THEN payload ELSE Arg("statusMessage", f),
              id |-> "undefined"]),
                      !.ev.threw = h.throws]
     ELSE IF t \in {"act_start", "chat_start", "act_complete", "chat_complete"} /\ h.onStatus
     THEN [st EXCEPT !.ev.onStatus = Append(@,
             [name |-> t, payload |-> payload, id |-> RequestIdOf(f.data)]),
                      !.ev.threw = h.throws]
     ELSE st

\* the if/else-if chain of ws.onmessage on the parsed envelope f
dispatch(st, f, h) ==
  LET t == f.type
      payload == Arg("data", f)
  IN IF t = "message" /\ h.onMessage /\ Truthy(f.data)
     THEN [st EXCEPT !.ev.onMessage = Append(@, payload), !.ev.threw = h.throws]
     ELSE IF t = "preview_error" /\ h.onMessage
     THEN [st EXCEPT !.ev.onMessage = Append(@, Arg("envelope", f)), !.ev.threw = h.throws]
     ELSE IF t = "preview_success" /\ h.onMessage
     THEN [st EXCEPT !.ev.onMessage = Append(@, Arg("envelope", f)), !.ev.threw = h.throws]
     ELSE IF t \in {"project_status", "status"} /\ h.onStatus
     THEN [st EXCEPT !.ev.onStatus = Append(@,
             [name |-> "project_status",
              payload |-> IF Truthy(f.data) THEN payload ELSE Arg("statusMessage", f),
              id |-> "undefined"]),
                      !.ev.threw = h.throws]
     ELSE IF t \in {"act_start", "chat_start", "act_complete", "chat_complete"} /\ h.onStatus
     THEN [st EXCEPT !.ev.onStatus = Append(@,
             [name |-> t, payload |-> payload, id |-> RequestIdOf(f.data)]),
                      !.ev.threw = h.throws]
     ELSE st

\* onmessage that hands every frame to JSON.parse
onmessage_ParseFirst(st, f, h) ==
  LET st1 == [st EXCEPT !.ev.parsed = TRUE] IN
  IF f.kind \in {"pong", "text", "null"} THEN [st1 EXCEPT !.ev.threw = TRUE]
  ELSE IF f.kind = "scalar" THEN st1
  ELSE dispatch(st1, f, h)

\* onmessage whose catch block gives the connection up
onmessage_ParseErrorCloses(st, f, h) ==
  IF f.kind = "pong" THEN onpong(st)
  ELSE LET st1 == [st EXCEPT !.ev.parsed = TRUE] IN
       IF f.kind \in {"text", "null"}
       THEN [st1 EXCEPT !.ev.threw = TRUE, !.wsRef = SockClose(@, "nocode")]
       ELSE IF f.kind = "scalar" THEN st1
       ELSE dispatch(st1, f, h)

\* the values of data.type that ws.onmessage tests for
RecognizedTypes == {"message", "preview_error", "preview_success", "project_status",
                    "status", "act_start", "chat_start", "act_complete", "chat_complete"}

\* onmessage that treats an unrecognised type as a protocol error
onmessage_UnknownTypeCloses(st, f, h) ==
  IF f.kind = "pong" THEN onpong(st)
  ELSE LET st1 == [st EXCEPT !.ev.parsed = TRUE] IN
       IF f.kind \in {"text", "null"} THEN [st1 EXCEPT !.ev.threw = TRUE]
       ELSE IF f.kind = "scalar" THEN st1
       ELSE IF f.type \notin RecognizedTypes
       THEN [st1 EXCEPT !.wsRef = SockClose(@, "nocode")]
       ELSE dispatch(st1, f, h)

\* onmessage that calls the handlers outside the try block
onmessage_HandlerOutsideTry(st, f, h) ==
  IF f.kind = "pong" THEN onpong(st)
  ELSE LET st1 == [st EXCEPT !.ev.parsed = TRUE] IN
       IF f.kind \in {"text", "null"} THEN [st1 EXCEPT !.ev.threw = TRUE]
       ELSE IF f.kind = "scalar" THEN st1
       ELSE LET st2 == dispatch(st1, f, h) IN
            [st2 EXCEPT !.ev.threw = FALSE, !.ev.escaped = st2.ev.threw]

\* ws.onmessage: 'pong' is recognised first; JSON.parse throws on text that
\* is not JSON, data.type throws on null, a handler may throw; all of it
\* inside the try block, whose catch only logs
onmessage(st, f, h) ==
  IF f.kind = "pong" THEN onpong(st)
  ELSE LET st1 == [st EXCEPT !.ev.parsed = TRUE] IN
       IF f.kind \in {"text", "null"} THEN [st1 EXCEPT !.ev.threw = TRUE]
       ELSE IF f.kind = "scalar" THEN st1
       ELSE dispatch(st1, f, h)

\* sendMessage(data)
sendMessage(st) ==
  IF ReadyState(st) = "OPEN"
  THEN [st EXCEPT !.ev.sent = @ + 1]
  ELSE [st EXCEPT !.ev.warned = TRUE]

onerror(st) ==
  [st EXCEPT !.connectionStatus = "disconnected",
             !.ev.onError = @ + 1]

\* onclose that retries only after code 1006
onclose_RetryOnlyOn1006(st, code) ==
  LET st1 == [stopHeartbeat(st) EXCEPT !.isConnected = FALSE,
                                       !.connectionStatus = "disconnected",
                                       !.ev.onDisconnect = @ + 1]
  IN IF st1.shouldReconnectRef /\ code = 1006
     THEN LET attempts == st1.connectionAttemptsRef + 1
              st2 == [st1 EXCEPT !.connectionAttemptsRef = attempts]
          IN IF attempts < maxReconnectAttempts
             THEN LET delay == ReconnectDelay(attempts) IN
                  IF PendingTimers(st2) >= MaxTimers
                  THEN [st2 EXCEPT !.ev.overflow = TRUE]
                  ELSE [SetReconnectTimeout(st2, delay) EXCEPT
                          !.connectionStatus = "reconnecting",
                          !.ev.scheduled = delay]
             ELSE [st2 EXCEPT !.connectionStatus = "disconnected",
                              !.ev.exhausted = TRUE]
     ELSE st1

onclose(st, code) ==
  LET st1 == [stopHeartbeat(st) EXCEPT !.isConnected = FALSE,
                                       !.connectionStatus = "disconnected",
                                       !.ev.onDisconnect = @ + 1]
  IN IF st1.shouldReconnectRef /\ code # NORMAL_CLOSURE
     THEN LET attempts == st1.connectionAttemptsRef + 1
              st2 == [st1 EXCEPT !.connectionAttemptsRef = attempts]
          IN IF attempts < maxReconnectAttempts
             THEN LET delay == ReconnectDelay(attempts) IN
                  IF PendingTimers(st2) >= MaxTimers
                  THEN [st2 EXCEPT !.ev.overflow = TRUE]
                  ELSE [SetReconnectTimeout(st2, delay) EXCEPT
                          !.connectionStatus = "reconnecting",
                          !.ev.scheduled = delay]
             ELSE [st2 EXCEPT !.connectionStatus = "disconnected",
                              !.ev.exhausted = TRUE]
     ELSE st1

\* the heartbeat as it was before the fix: ping first, then the check
heartbeat_SendThenCheck(st) ==
  IF ReadyState(st) = "OPEN"
  THEN LET st1 == [st EXCEPT !.ev.pings = @ + 1] IN
       IF st.timeSinceLastPong > pongTimeout
       THEN [st1 EXCEPT !.wsRef = SockClose(@, "nocode"),
                        !.ev.hbClosed = TRUE]
       ELSE st1
  ELSE st

\* the setInterval callback of startHeartbeat
heartbeat(st) ==
  IF ReadyState(st) = "OPEN"
  THEN IF st.timeSinceLastPong > heartbeatInterval + pongTimeout
       THEN [st EXCEPT !.wsRef = SockClose(@, "nocode"),
                       !.ev.hbClosed = TRUE]
       ELSE [st EXCEPT !.ev.pings = @ + 1]
  ELSE st

\* ---- usePinnedMessages --------------------------------------------------
Projects == {"p1", "p2"}
MessageIds == {"m1", "m2"}

\* localStorage.getItem(key): null, or the string written by setItem (the
\* JSON text of an array, here the array itself)
NoItem == [present |-> FALSE, text |-> <<>>]
Item(array) == [present |-> TRUE, text |-> array]

Elems(seq) == {seq[k] : k \in DOMAIN seq}

\* Set.prototype.add / delete on a Set held as its elements in insertion order
SetAdd(set, m) == IF m \in Elems(set) THEN set ELSE Append(set, m)
SetDelete(set, m) == SelectSeq(set, LAMBDA x : x # m)

\* JSON.stringify(Array.from(pinnedIds))
Stringify(set) == Item(set)

\* new Set(JSON.parse(stored)): duplicates of the array collapse
RECURSIVE SetOf(_)
SetOf(array) ==
  IF array = <<>> THEN <<>>
  ELSE SetAdd(SetOf(SubSeq(array, 1, Len(array) - 1)), array[Len(array)])
Parse(item) == SetOf(item.text)

\* savePinnedMessages(pinnedIds) with the projectId of the current render
savePinnedMessages(set) == localStorage' = [localStorage EXCEPT ![projectId] = Stringify(set)]

\* pinMessage(messageId)
PinMessage(m) ==
  /\ pinnedMessageIds' = SetAdd(pinnedMessageIds, m)
  /\ savePinnedMessages(SetAdd(pinnedMessageIds, m))
  /\ pinnedWhile' = [pinnedWhile EXCEPT ![projectId] = @ \cup {m}]
  /\ UNCHANGED <<projectId, hookVars>>

\* unpinMessage(messageId)
UnpinMessage(m) ==
  /\ pinnedMessageIds' = SetDelete(pinnedMessageIds, m)
  /\ savePinnedMessages(SetDelete(pinnedMessageIds, m))
  /\ UNCHANGED <<projectId, pinnedWhile, hookVars>>

\* clearPinnedMessages()
ClearPinnedMessages ==
  /\ pinnedMessageIds' = <<>>
  /\ savePinnedMessages(<<>>)
  /\ UNCHANGED <<projectId, pinnedWhile, hookVars>>

\* the projectId prop changes to p: the loading effect runs again
SwitchProject(p) ==
  /\ p # projectId
  /\ projectId' = p
  /\ pinnedMessageIds' = IF localStorage[p].present THEN Parse(localStorage[p])
                         ELSE pinnedMessageIds
  /\ UNCHANGED <<localStorage, pinnedWhile, hookVars>>

NextPins ==
  \/ \E m \in MessageIds : PinMessage(m)
  \/ \E m \in MessageIds : UnpinMessage(m)
  \/ ClearPinnedMessages
  \/ \E p \in Projects : SwitchProject(p)

\* ---- the specification -------------------------------------------------
Init ==
  /\ phase = "init"
  /\ urlValid \in BOOLEAN
  /\ errSock = "none"
  /\ opsLeft = MaxOps
  /\ wsRef = NullSock
  /\ orphans = [i \in KindIds |-> 0]
  /\ reconnectTimeoutRef = -2
  /\ strayTimers = <<>>
  /\ heartbeatIntervalRef = -1
  /\ connectionAttemptsRef = 0
  /\ shouldReconnectRef = TRUE
  /\ timeSinceLastPong = 0
  /\ isConnected = FALSE
  /\ connectionStatus = "disconnected"
  /\ ev = NoEv("Init", 0, 0)
  /\ afterDisconnect = FALSE
  /\ exhausted = FALSE
  /\ lastDelay = 0
  /\ hbFresh = FALSE
  /\ teardownAttempts = -1
  /\ projectId = "p1"
  /\ pinnedMessageIds = <<>>
  /\ localStorage = [p \in Projects |-> NoItem]
  /\ pinnedWhile = [p \in Projects |-> {}]

Connected == wsRef.readyState = "OPEN" /\ connectionStatus = "connected"

\* history kept for the properties; follows from the step just taken
Track(start, teardown, ownerAct) ==
  /\ afterDisconnect' = IF start THEN FALSE
                        ELSE IF teardown /\ Connected THEN TRUE
                        ELSE afterDisconnect
  /\ exhausted' = IF ev'.exhausted THEN TRUE
                  ELSE IF ownerAct THEN FALSE
                  ELSE exhausted
  /\ lastDelay' = IF ev'.scheduled # 0 THEN ev'.scheduled
                  ELSE IF connectionAttemptsRef' = 0 THEN 0
                  ELSE lastDelay
  /\ hbFresh' = IF heartbeatIntervalRef' = -1 THEN FALSE
                ELSE IF ev'.onConnect > 0 THEN TRUE
                ELSE IF ev'.op = "HeartbeatTick" THEN FALSE
                ELSE hbFresh
  /\ teardownAttempts' = IF start THEN -1
                         ELSE IF teardown /\ teardownAttempts = -1 THEN connectionAttemptsRef'
                         ELSE teardownAttempts

\* first run of the effect when the component mounts
Mount ==
  /\ phase = "init"
  /\ phase' = "mounted"
  /\ Set(effect(Cur("Mount", 0, 0)))
  /\ Track(TRUE, FALSE, TRUE)
  /\ UNCHANGED <<urlValid, errSock, opsLeft>>

OwnerCan == phase = "mounted" /\ opsLeft > 0 /\ errSock = "none"

\* projectId changes: the effect's cleanup runs, then the effect again
Restart ==
  /\ OwnerCan
  /\ opsLeft' = opsLeft - 1
  /\ Set(effect(disconnect(Cur("Restart", 0, 0))))
  /\ Track(TRUE, FALSE, TRUE)
  /\ UNCHANGED <<phase, urlValid, errSock>>

\* the component unmounts: the effect's cleanup runs
Unmount ==
  /\ OwnerCan
  /\ opsLeft' = opsLeft - 1
  /\ phase' = "unmounted"
  /\ Set(disconnect(Cur("Unmount", 0, 0)))
  /\ Track(FALSE, TRUE, TRUE)
  /\ UNCHANGED <<urlValid, errSock>>

\* the owner calls the returned connect()
Connect ==
  /\ OwnerCan
  /\ opsLeft' = opsLeft - 1
  /\ Set(connect(Cur("Connect", 0, 0)))
  /\ Track(FALSE, FALSE, TRUE)
  /\ UNCHANGED <<phase, urlValid, errSock>>

\* the owner calls the returned disconnect()
Disconnect ==
  /\ OwnerCan
  /\ opsLeft' = opsLeft - 1
  /\ Set(disconnect(Cur("Disconnect", 0, 0)))
  /\ Track(FALSE, TRUE, TRUE)
  /\ UNCHANGED <<phase, urlValid, errSock>>

\* the owner calls disconnect() on a controller that is already torn down
Redisconnect ==
  /\ phase = "mounted" /\ errSock = "none"
  /\ ~shouldReconnectRef
  /\ Set(disconnect([Cur("Disconnect", 0, 0) EXCEPT !.ev.again = TRUE]))
  /\ Track(FALSE, TRUE, TRUE)
  /\ UNCHANGED <<phase, urlValid, errSock, opsLeft>>

\* the owner calls the returned sendMessage(data)
Send ==
  /\ phase = "mounted" /\ errSock = "none"
  /\ Set(sendMessage(Cur("Send", 0, 0)))
  /\ Track(FALSE, FALSE, FALSE)
  /\ UNCHANGED <<phase, urlValid, errSock, opsLeft>>

\* ---- transport events.  Socket 0 is the one wsRef refers to, socket i > 0
\* is one of kind i that wsRef no longer refers to.
Present(i) == IF i = 0 THEN wsRef.readyState \in Live ELSE orphans[i] > 0
SockAt(i) == IF i = 0 THEN Strip(wsRef) ELSE Kinds[i]

\* socket i changes to readyState rs (a closed one is forgotten unless wsRef
\* refers to it)
Put(st, i, rs) ==
  IF i = 0
  THEN [st EXCEPT !.wsRef = IF rs = "CLOSED" THEN ClosedSock
                            ELSE [@ EXCEPT !.readyState = rs,
                                           !.opened = (@ \/ rs = "OPEN")]]
  ELSE LET st1 == [st EXCEPT !.orphans[i] = @ - 1] IN
       IF rs = "CLOSED" THEN st1
       ELSE [st1 EXCEPT !.orphans[KindOf([Kinds[i] EXCEPT
                                             !.readyState = rs,
                                             !.opened = (@ \/ rs = "OPEN")])] = @ + 1]

\* the handshake of socket i succeeds: readyState becomes OPEN, onopen runs
WsOpen(i) ==
  /\ errSock = "none"
  /\ Present(i)
  /\ SockAt(i).readyState = "CONNECTING"
  /\ Set(onopen(Put(Cur("WsOpen", i, 0), i, "OPEN")))
  /\ Track(FALSE, FALSE, FALSE)
  /\ UNCHANGED <<phase, urlValid, errSock, opsLeft>>

\* the frame 'pong' arrives on socket i (frames are delivered only while OPEN)
WsPong(i) ==
  /\ errSock = "none"
  /\ Present(i)
  /\ SockAt(i).readyState = "OPEN"
  /\ LET st == Cur("WsPong", i, 0) IN
     Set(onpong(IF i = 0 THEN [st EXCEPT !.wsRef.gotPong = TRUE, !.wsRef.openFor = 0]
                ELSE st))
  /\ Track(FALSE, FALSE, FALSE)
  /\ UNCHANGED <<phase, urlValid, errSock, opsLeft>>

\* the text frame f arrives on socket i, whose onmessage closed over the
\* handlers h
WsMessage(i, f, h) ==
  /\ errSock = "none"
  /\ Present(i)
  /\ SockAt(i).readyState = "OPEN"
  /\ LET st == [Cur("WsMessage", i, 0) EXCEPT !.ev.frame = f, !.ev.handlers = h] IN
     Set(onmessage(IF i = 0 /\ f.kind = "pong"
                   THEN [st EXCEPT !.wsRef.gotPong = TRUE, !.wsRef.openFor = 0]
                   ELSE st, f, h))
  /\ Track(FALSE, FALSE, FALSE)
  /\ UNCHANGED <<phase, urlValid, errSock, opsLeft>>

\* the server starts the closing handshake: readyState becomes CLOSING
\* before the close event is delivered
ServerClosing(i) ==
  /\ errSock = "none"
  /\ Present(i)
  /\ SockAt(i).readyState = "OPEN"
  /\ Set(Put(Cur("ServerClosing", i, 0), i, "CLOSING"))
  /\ Track(FALSE, FALSE, FALSE)
  /\ UNCHANGED <<phase, urlValid, errSock, opsLeft>>

\* the connection of socket i fails: readyState becomes CLOSED and the error
\* event is fired; the close event follows in the same task
WsError(i) ==
  /\ errSock = "none"
  /\ Present(i)
  /\ errSock' = IF i = 0 THEN "cur" ELSE "orphan"
  /\ LET st == Cur("WsError", i, 0) IN
     Set(onerror(IF i = 0 THEN [st EXCEPT !.wsRef.readyState = "CLOSED",
                                          !.wsRef.openFor = 0]
                 ELSE Put(st, i, "CLOSED")))
  /\ Track(FALSE, FALSE, FALSE)
  /\ UNCHANGED <<phase, urlValid, opsLeft>>

\* close codes the close event of socket sk can carry
CodesOf(sk) ==
  IF ~sk.opened THEN {1006}
  ELSE IF sk.closeReq = "c1000" THEN {1000, 1006}
  ELSE IF sk.closeReq = "nocode" THEN {1005, 1006}
  ELSE CloseCodes

\* the close event of socket i is delivered with the given code
WsClose(i, code) ==
  /\ errSock = "none"
  /\ Present(i)
  /\ code \in CodesOf(SockAt(i))
  /\ LET st == [Cur("WsClose", i, code) EXCEPT
                  !.ev.hbClosed = (SockAt(i).closeReq = "nocode")]
     IN Set(onclose(Put(st, i, "CLOSED"), code))
  /\ Track(FALSE, FALSE, FALSE)
  /\ UNCHANGED <<phase, urlValid, errSock, opsLeft>>

\* the close event that follows an error event
WsCloseAfterError ==
  /\ errSock # "none"
  /\ errSock' = "none"
  /\ LET i == IF errSock = "cur" THEN 0 ELSE 1
         st == Cur("WsClose", i, 1006)
     IN Set(onclose(IF errSock = "cur" THEN [st EXCEPT !.wsRef = ClosedSock] ELSE st,
                    1006))
  /\ Track(FALSE, FALSE, FALSE)
  /\ UNCHANGED <<phase, urlValid, opsLeft>>

\* the setTimeout callback scheduled by onclose runs: the timeout the ref
\* still refers to ...
ReconnectTimerFire ==
  /\ errSock = "none"
  /\ reconnectTimeoutRef = 0
  /\ Set(connect([Cur("ReconnectTimerFire", 0, 0) EXCEPT !.reconnectTimeoutRef = -1]))
  /\ Track(FALSE, FALSE, FALSE)
  /\ UNCHANGED <<phase, urlValid, errSock, opsLeft>>

\* ... or one whose handle was overwritten
StrayTimerFire ==
  /\ errSock = "none"
  /\ strayTimers # <<>>
  /\ Head(strayTimers) = 0
  /\ Set(connect([Cur("StrayTimerFire", 0, 0) EXCEPT !.strayTimers = Tail(@)]))
  /\ Track(FALSE, FALSE, FALSE)
  /\ UNCHANGED <<phase, urlValid, errSock, opsLeft>>

\* the setInterval callback of the heartbeat runs
HeartbeatTick ==
  /\ errSock = "none"
  /\ heartbeatIntervalRef = 0
  /\ Set(heartbeat([Cur("HeartbeatTick", 0, 0) EXCEPT
                      !.heartbeatIntervalRef = heartbeatInterval,
                      !.ev.firstTick = hbFresh]))
  /\ Track(FALSE, FALSE, FALSE)
  /\ UNCHANGED <<phase, urlValid, errSock, opsLeft>>

\* times until the pending timer callbacks are due
Due == {strayTimers[k] : k \in DOMAIN strayTimers}
         \cup (IF reconnectTimeoutRef >= 0 THEN {reconnectTimeoutRef} ELSE {})
         \cup (IF heartbeatIntervalRef >= 0 THEN {heartbeatIntervalRef} ELSE {})

\* the largest values the measured differences are compared with
PongCap == heartbeatInterval + pongTimeout + 1
OpenCap == 2 * heartbeatInterval + pongTimeout + 1

Later(r, d) == IF r < 0 THEN r ELSE r - d

\* d milliseconds pass, never beyond a due callback
AdvanceTime ==
  /\ errSock = "none"
  /\ \A r \in Due : r > 0
  /\ LET d == IF \E r \in Due : r < TimeStep
              THEN CHOOSE r \in Due : \A q \in Due : r <= q
              ELSE TimeStep
     IN /\ reconnectTimeoutRef' = Later(reconnectTimeoutRef, d)
        /\ strayTimers' = [k \in DOMAIN strayTimers |-> strayTimers[k] - d]
        /\ heartbeatIntervalRef' = Later(heartbeatIntervalRef, d)
        /\ timeSinceLastPong' = Min(timeSinceLastPong + d, PongCap)
        /\ wsRef' = IF wsRef.readyState = "OPEN" /\ ~wsRef.gotPong
                    THEN [wsRef EXCEPT !.openFor = Min(@ + d, OpenCap)]
                    ELSE wsRef
  /\ ev' = NoEv("AdvanceTime", 0, 0)
  /\ UNCHANGED <<phase, urlValid, errSock, opsLeft, orphans,
                 connectionAttemptsRef, shouldReconnectRef, isConnected,
                 connectionStatus, afterDisconnect, exhausted, lastDelay, hbFresh,
                 teardownAttempts, pinVars>>

Next ==
  \/ Mount
  \/ Restart
  \/ Unmount
  \/ Connect
  \/ Disconnect
  \/ \E i \in {0} \cup KindIds : WsOpen(i)
  \/ \E i \in {0} \cup KindIds : WsPong(i)
  \/ \E i \in {0} \cup KindIds : ServerClosing(i)
  \/ \E i \in {0} \cup KindIds : WsError(i)
  \/ \E i \in {0} \cup KindIds, code \in CloseCodes : WsClose(i, code)
  \/ WsCloseAfterError
  \/ ReconnectTimerFire
  \/ StrayTimerFire
  \/ HeartbeatTick
  \/ AdvanceTime

Spec == Init /\ [][Next]_vars

\* one connection and the frames it receives
NextMsg ==
  \/ Mount
  \/ WsOpen(0)
  \/ \E f \in Frames, h \in Handlers : WsMessage(0, f, h)
  \/ HeartbeatTick
  \/ AdvanceTime

SpecMsg == Init /\ [][NextMsg]_vars

\* ---- the controller left alone after mount, with a backend that accepts a
\* connection attempt before the attempt cap is reached: a handshake can fail
\* only while the failure leaves attempts below the cap
Refusable == wsRef.readyState = "CONNECTING" => connectionAttemptsRef + 1 < maxReconnectAttempts

AutoClose(code) == Refusable /\ WsClose(0, code)

AutoError == Refusable /\ WsError(0)

NextAuto ==
  \/ Mount
  \/ WsOpen(0)
  \/ WsPong(0)
  \/ ServerClosing(0)
  \/ \E code \in CloseCodes : AutoClose(code)
  \/ AutoError
  \/ WsCloseAfterError
  \/ ReconnectTimerFire
  \/ HeartbeatTick
  \/ AdvanceTime

\* timers run when due, time passes, a started handshake completes and the
\* close event follows the error event
FairAuto ==
  /\ WF_vars(ReconnectTimerFire)
  /\ WF_vars(HeartbeatTick)
  /\ WF_vars(AdvanceTime)
  /\ WF_vars(WsOpen(0))
  /\ WF_vars(WsCloseAfterError)

SpecLive == Init /\ [][NextAuto]_vars /\ FairAuto

SpecPins == Init /\ [][NextPins]_vars

\* the whole lifecycle, with the owner's calls that need no session
NextOwner ==
  \/ Next
  \/ Redisconnect
  \/ Send

SpecOwner == Init /\ [][NextOwner]_vars

TypeOK ==
  /\ timeSinceLastPong \in 0..PongCap
  /\ wsRef.readyState \in {"null", "CLOSED"} \cup Live
  /\ connectionStatus \in {"connecting", "connected", "disconnected", "reconnecting"}
  /\ isConnected \in BOOLEAN
  /\ LiveSockets(Cur("", 0, 0)) <= MaxSockets
  /\ PendingTimers(Cur("", 0, 0)) <= MaxTimers

TimerFired == ev.op \in {"ReconnectTimerFire", "StrayTimerFire"}

\* C1: after disconnect() on a connected controller (and until the owner
\* starts a new session) no reconnect timer calls connect() and no new socket
\* is created.
C1_NoConnectAfterDisconnect ==
  afterDisconnect => (ev.created = 0 /\ ~(TimerFired /\ ev.connectCalls > 0))

C1_Witness ==
  afterDisconnect /\ ev.op = "WsClose" /\ ev.code = 1006 /\ ~shouldReconnectRef

\* C2: at most one WebSocket object of the controller is connecting, open or
\* closing at any time.
C2_AtMostOneSocket == LiveSockets(Cur("", 0, 0)) <= 1

\* the current socket was open when the last heartbeat tick ran
TickSawOpen == ev.hbClosed \/ wsRef.readyState = "OPEN"

\* C3 (as claimed): on every heartbeat tick, if the time since the last pong
\* exceeds heartbeatInterval + pongTimeout the connection is closed and no
\* ping is sent, otherwise exactly one ping is sent and nothing is closed.
C3_EveryTickChecksThenSends ==
  ev.op = "HeartbeatTick" =>
    IF timeSinceLastPong > heartbeatInterval + pongTimeout
    THEN ev.hbClosed /\ ev.pings = 0
    ELSE ev.pings = 1 /\ ~ev.hbClosed

\* C3 (amended): the same on every tick at which the current socket is open;
\* a tick at which it is not open sends nothing and closes nothing.
C3_TickOnOpenSocketChecksThenSends ==
  ev.op = "HeartbeatTick" =>
    IF TickSawOpen
    THEN IF timeSinceLastPong > heartbeatInterval + pongTimeout
         THEN ev.hbClosed /\ ev.pings = 0 /\ wsRef.readyState = "CLOSING"
         ELSE ev.pings = 1 /\ ~ev.hbClosed /\ wsRef.readyState = "OPEN"
    ELSE ev.pings = 0 /\ ~ev.hbClosed

C3_Witness ==
  ev.op = "HeartbeatTick" /\ ev.hbClosed /\ timeSinceLastPong > heartbeatInterval + pongTimeout

\* C4: a connection on which no pong was ever received is closed by the
\* heartbeat no earlier than heartbeatInterval + pongTimeout and no later than
\* 2 * heartbeatInterval + pongTimeout after its open event.
C4_QuietConnectionClosedInWindow ==
  /\ (ev.op = "HeartbeatTick" /\ ev.hbClosed /\ ~wsRef.gotPong) => wsRef.openFor >= heartbeatInterval + pongTimeout
  /\ (wsRef.readyState = "OPEN" /\ ~wsRef.gotPong) => wsRef.openFor <= 2 * heartbeatInterval + pongTimeout

\* C5: the first heartbeat tick after an open event never closes the
\* connection.
C5_FirstTickNeverCloses ==
  (ev.op = "HeartbeatTick" /\ ev.firstTick) => (~ev.hbClosed /\ timeSinceLastPong <= heartbeatInterval)

C5_Witness ==
  /\ ev.op = "HeartbeatTick" /\ ev.firstTick
  /\ wsRef.readyState = "OPEN" /\ ~wsRef.gotPong /\ ev.pings = 1

\* C6: every retry is scheduled after min(2000 * 2^attempts, 30000) ms,
\* attempts being the value after the increment; over consecutive abnormal
\* closes (attempts not reset in between) the delays never decrease and never
\* exceed 30000.
C6_BackoffDelay ==
  [][ev'.scheduled # 0 =>
       /\ ev'.scheduled = Min(2000 * (2 ^ connectionAttemptsRef'), 30000)
       /\ connectionAttemptsRef' = connectionAttemptsRef + 1
       /\ ev'.scheduled >= lastDelay
       /\ ev'.scheduled <= 30000]_vars

C6_Witness == ev.scheduled = 30000 /\ connectionAttemptsRef = 4 /\ lastDelay = 30000

\* C7: once the attempt cap is hit, and until the owner acts, no reconnect
\* timer is pending, no timer calls connect() and the status stays
\* disconnected.
C7_NoReconnectAfterExhaustion ==
  exhausted => /\ PendingTimers(Cur("", 0, 0)) = 0
               /\ ~TimerFired
               /\ connectionStatus = "disconnected"

\* C8: the close event that exhausts the attempts reports the condition
\* through onError exactly once.
C8_ExhaustionReportedOnce == ev.exhausted => ev.onError = 1

\* C9: a close event with code 1000 leaves the status disconnected, the
\* heartbeat stopped, attempts unchanged and no reconnect timer pending.
C9_NormalCloseNeverReconnects ==
  [][(ev'.op = "WsClose" /\ ev'.code = 1000) =>
       /\ connectionStatus' = "disconnected"
       /\ heartbeatIntervalRef' = -1
       /\ connectionAttemptsRef' = connectionAttemptsRef
       /\ ev'.scheduled = 0
       /\ PendingTimers(Cur("", 0, 0))' = 0]_vars

\* C10: the close event of a socket the heartbeat closed is handled as an
\* abnormal close: while shouldReconnect is set attempts is incremented,
\* onError is not called, and below the cap a retry is scheduled (after
\* 2 * baseDelay when attempts was 0).
C10_HeartbeatCloseReconnects ==
  [][(ev'.op = "WsClose" /\ ev'.hbClosed /\ shouldReconnectRef) =>
       /\ connectionAttemptsRef' = connectionAttemptsRef + 1
       /\ ev'.onError = 0
       /\ ~isConnected' /\ heartbeatIntervalRef' = -1
       /\ connectionAttemptsRef' < maxReconnectAttempts =>
            /\ ev'.scheduled = Min(2000 * (2 ^ connectionAttemptsRef'), 30000)
            /\ reconnectTimeoutRef' = ev'.scheduled
            /\ connectionStatus' = "reconnecting"
       /\ connectionAttemptsRef = 0 => ev'.scheduled = 2 * 2000]_vars

C10_Witness ==
  ev.op = "WsClose" /\ ev.hbClosed /\ ev.scheduled = 4000 /\ connectionAttemptsRef = 1

\* the envelope types routed to the status handler under their own name
StatusTypes == {"act_start", "chat_start", "act_complete", "chat_complete"}

\* the last event was the arrival of a JSON object
Envelope == ev.op = "WsMessage" /\ ev.frame.kind = "object"

\* C11: an envelope of type act_start, chat_start, act_complete or
\* chat_complete invokes the status handler exactly once with the type as
\* event name, the envelope's data as payload and the envelope's requestId as
\* id; the content handler is not invoked.
C11_StatusEventsCarryRequestId ==
  (Envelope /\ ev.frame.type \in StatusTypes /\ ev.handlers.onStatus) =>
    /\ ev.onStatus = <<[name |-> ev.frame.type,
                        payload |-> Arg("data", ev.frame),
                        id |-> IF ev.frame.requestId = "absent" THEN "undefined"
                               ELSE ev.frame.requestId]>>
    /\ ev.onMessage = <<>>

\* what C12 says of the preview and project-status envelopes
PreviewAndStatusRouting ==
  /\ (Envelope /\ ev.frame.type \in {"preview_error", "preview_success"} /\ ev.handlers.onMessage) =>
       ev.onMessage = <<Arg("envelope", ev.frame)>> /\ ev.onStatus = <<>>
  /\ (Envelope /\ ev.frame.type \in {"project_status", "status"} /\ ev.handlers.onStatus) =>
       /\ Len(ev.onStatus) = 1 /\ ev.onStatus[1].name = "project_status"
       /\ ev.onMessage = <<>>

\* C12 (as claimed): every envelope of type message invokes the content
\* handler exactly once with the envelope's data; preview_error and
\* preview_success invoke it once with the whole envelope; project_status and
\* status invoke the status handler with event name project_status; the other
\* handler is never invoked.
C12_ContentAndStatusRouting ==
  /\ (Envelope /\ ev.frame.type = "message" /\ ev.handlers.onMessage) =>
       ev.onMessage = <<Arg("data", ev.frame)>> /\ ev.onStatus = <<>>
  /\ PreviewAndStatusRouting

\* C12 (amended): the same, where an envelope of type message invokes the
\* content handler only if its data is truthy; with data missing or falsy
\* no handler is invoked.
C12_RoutingWithTruthyData ==
  /\ (Envelope /\ ev.frame.type = "message" /\ ev.handlers.onMessage) =>
       /\ ev.onMessage = IF Truthy(ev.frame.data) THEN <<Arg("data", ev.frame)>> ELSE <<>>
       /\ ev.onStatus = <<>>
  /\ PreviewAndStatusRouting

C12_Witness ==
  /\ Envelope /\ ev.frame.type = "message" /\ ev.frame.data = "obj"
  /\ ev.handlers.onMessage /\ ev.handlers.onStatus
  /\ ev.onMessage = <<Arg("data", ev.frame)>>

\* C13: the frame 'pong' invokes neither handler, is not handed to JSON.parse
\* and changes nothing in the controller except the time of the last pong,
\* which becomes the present instant.
C13_PongOnlyRefreshesLiveness ==
  [][(ev'.op = "WsMessage" /\ ev'.frame.kind = "pong") =>
       /\ ev'.onMessage = <<>> /\ ev'.onStatus = <<>>
       /\ ~ev'.parsed /\ ~ev'.threw
       /\ timeSinceLastPong' = 0
       /\ wsRef'.readyState = wsRef.readyState
       /\ UNCHANGED <<orphans, reconnectTimeoutRef, strayTimers, heartbeatIntervalRef,
                      connectionAttemptsRef, shouldReconnectRef, isConnected,
                      connectionStatus>>]_vars

C13_Witness ==
  /\ ev.op = "WsMessage" /\ ev.frame.kind = "pong"
  /\ timeSinceLastPong = 0 /\ heartbeatIntervalRef = 0 /\ wsRef.gotPong

\* C14: after disconnect() and until the owner starts a new session neither
\* a heartbeat timer nor a reconnect timer is pending.
C14_NoTimerAfterTeardown ==
  ~shouldReconnectRef => /\ PendingTimers(Cur("", 0, 0)) = 0
                         /\ heartbeatIntervalRef = -1

\* C15: a second disconnect() leaves the controller as the first call left
\* it and closes no socket.
C15_DisconnectIdempotent ==
  (ev.op = "Disconnect" /\ ev.again) =>
    /\ connectionAttemptsRef = teardownAttempts
    /\ ev.closed = 0
    /\ wsRef = NullSock /\ reconnectTimeoutRef = -2 /\ heartbeatIntervalRef = -1
    /\ ~shouldReconnectRef /\ ~isConnected /\ connectionStatus = "disconnected"

\* C16: a send requested while the status is not connected transmits nothing.
C16_SendWhileNotConnectedDropped ==
  (ev.op = "Send" /\ connectionStatus # "connected") => ev.sent = 0

\* C17: a frame that is not 'pong' and is no JSON object is dropped: no
\* handler is invoked, the controller is unchanged and the socket stays open.
C17_UnparseableFrameDropped ==
  [][(ev'.op = "WsMessage" /\ ev'.frame.kind \in {"text", "null", "scalar"}) =>
       /\ ev'.onMessage = <<>> /\ ev'.onStatus = <<>> /\ ev'.onError = 0
       /\ wsRef' = wsRef /\ wsRef'.readyState = "OPEN"
       /\ UNCHANGED <<orphans, reconnectTimeoutRef, strayTimers, heartbeatIntervalRef,
                      connectionAttemptsRef, shouldReconnectRef, timeSinceLastPong,
                      isConnected, connectionStatus>>]_vars

C17_Witness ==
  /\ ev.op = "WsMessage" /\ ev.frame.kind = "text" /\ ev.parsed /\ ev.threw
  /\ wsRef.readyState = "OPEN" /\ connectionStatus = "connected"

\* C18: the error event of a socket changes neither the status, the attempts,
\* shouldReconnect nor the timers.
C18_ErrorEventChangesNothing ==
  [][ev'.op = "WsError" =>
       UNCHANGED <<connectionStatus, connectionAttemptsRef, shouldReconnectRef,
                   reconnectTimeoutRef, strayTimers, heartbeatIntervalRef>>]_vars

\* C19: onError is called only by the close event that exhausts the attempts
\* or by a connect() whose socket construction throws.
C19_OnErrorOnlyExhaustionOrConstruction ==
  ev.onError > 0 => (ev.exhausted \/ (ev.connectCalls > 0 /\ ~urlValid))

\* C20: the open event sets attempts to 0, the time of the last pong to the
\* present instant, the status to connected, starts the heartbeat with a full
\* interval ahead and calls onConnect once.
C20_OpenResetsAndStartsHeartbeat ==
  ev.op = "WsOpen" =>
    /\ connectionAttemptsRef = 0
    /\ timeSinceLastPong = 0
    /\ connectionStatus = "connected" /\ isConnected
    /\ heartbeatIntervalRef = heartbeatInterval
    /\ ev.onConnect = 1

C20_Witness ==
  /\ ev.op = "WsOpen" /\ ev.sock = 1 /\ ev.onConnect = 1
  /\ wsRef.readyState = "OPEN" /\ wsRef.openFor > 0
  /\ heartbeatIntervalRef = heartbeatInterval

\* C21: connect() called by the owner does nothing when the status is
\* connected or shouldReconnect is cleared (no socket created; status,
\* attempts and timers unchanged); otherwise it sets the status to connecting
\* (attempts = 0) or reconnecting (attempts > 0) and creates one socket
\* (unless the construction throws).
C21_ConnectGuards ==
  [][ev'.op = "Connect" =>
       IF connectionStatus = "connected" \/ ~shouldReconnectRef
       THEN /\ ev'.created = 0
            /\ UNCHANGED <<connectionStatus, connectionAttemptsRef, reconnectTimeoutRef,
                           strayTimers, heartbeatIntervalRef>>
       ELSE /\ urlValid => ev'.created = 1
            /\ connectionStatus' = IF connectionAttemptsRef = 0 THEN "connecting"
                                   ELSE "reconnecting"]_vars

\* C22: a connect() call by the owner after the attempts were exhausted
\* starts a new attempt with attempts reset to 0.
C22_ManualConnectResetsAttempts ==
  [][(ev'.op = "Connect" /\ exhausted /\ ev'.created = 1) =>
       connectionAttemptsRef' = 0]_vars

\* C23: with fair timers and transport, no call from the owner and a backend
\* that accepts an attempt before the cap, every abnormal close is eventually
\* followed by status connected with attempts = 0 and a running heartbeat.
C23_AbnormalCloseLeadsToConnected ==
  (ev.op = "WsClose" /\ ev.code # NORMAL_CLOSURE)
    ~> (Connected /\ isConnected /\ connectionAttemptsRef = 0 /\ heartbeatIntervalRef >= 0)

C23_Witness ==
  /\ ev.op = "WsClose" /\ ev.code = 1006 /\ connectionAttemptsRef = maxReconnectAttempts - 1
  /\ connectionStatus = "reconnecting" /\ reconnectTimeoutRef = 30000

\* C24: a JSON object whose type is none of the recognised values invokes
\* neither handler and leaves the controller unchanged.
C24_UnknownTypeIgnored ==
  [][(ev'.op = "WsMessage" /\ ev'.frame.kind = "object"
        /\ ev'.frame.type \notin RecognizedTypes) =>
       /\ ev'.onMessage = <<>> /\ ev'.onStatus = <<>>
       /\ ~ev'.threw /\ ~ev'.escaped
       /\ wsRef' = wsRef
       /\ UNCHANGED <<orphans, reconnectTimeoutRef, strayTimers, heartbeatIntervalRef,
                      connectionAttemptsRef, shouldReconnectRef, timeSinceLastPong,
                      isConnected, connectionStatus>>]_vars

C24_Witness ==
  /\ ev.op = "WsMessage" /\ ev.frame.kind = "object" /\ ev.frame.type = "unknown_type"
  /\ ev.frame.data = "obj" /\ ev.handlers.onMessage /\ ev.handlers.onStatus
  /\ ev.parsed /\ wsRef.readyState = "OPEN"

\* C29: an exception raised by the content or status handler is caught inside
\* onmessage: it does not escape, the socket stays open and the controller is
\* unchanged.
C29_HandlerExceptionContained ==
  [][(ev'.op = "WsMessage" /\ ev'.handlers.throws
        /\ (ev'.onMessage # <<>> \/ ev'.onStatus # <<>>)) =>
       /\ ev'.threw /\ ~ev'.escaped
       /\ Len(ev'.onMessage) + Len(ev'.onStatus) = 1
       /\ wsRef' = wsRef /\ wsRef'.readyState = "OPEN"
       /\ UNCHANGED <<orphans, reconnectTimeoutRef, strayTimers, heartbeatIntervalRef,
                      connectionAttemptsRef, shouldReconnectRef, timeSinceLastPong,
                      isConnected, connectionStatus>>]_vars

C29_Witness ==
  /\ ev.op = "WsMessage" /\ ev.handlers.throws /\ ev.frame.type = "chat_complete"
  /\ Len(ev.onStatus) = 1 /\ ev.threw
  /\ wsRef.readyState = "OPEN" /\ connectionStatus = "connected"

\* C25: isConnected is true exactly when connectionStatus is connected.
C25_FlagAgreesWithStatus == isConnected <=> connectionStatus = "connected"

\* C26: the close event of a socket that disconnect() closed, delivered
\* after the restarted session has an open socket, does not stop the
\* heartbeat, does not change isConnected or the status, and schedules no
\* reconnect.
C26_LateCloseOfOldSocketIgnored ==
  [][(/\ ev'.op = "WsClose" /\ ev'.sock = 1
      /\ (orphans'[3] < orphans[3] \/ orphans'[4] < orphans[4])
      /\ shouldReconnectRef /\ wsRef.readyState = "OPEN") =>
       /\ UNCHANGED <<heartbeatIntervalRef, isConnected, connectionStatus,
                      connectionAttemptsRef, reconnectTimeoutRef, strayTimers>>
       /\ ev'.scheduled = 0]_vars

\* a socket of the controller is in its opening handshake
HandshakeInProgress == wsRef.readyState = "CONNECTING" \/ orphans[1] > 0

\* C27: while the status is connecting or reconnecting a handshake is in
\* progress or a reconnect timer is pending.
C27_ConnectingHasSocketOrTimer ==
  connectionStatus \in {"connecting", "reconnecting"} =>
    (HandshakeInProgress \/ PendingTimers(Cur("", 0, 0)) > 0)

C30_PinsStayWithTheirProject ==
  /\ Elems(pinnedMessageIds) \subseteq pinnedWhile[projectId]
  /\ \A p \in Projects : Elems(localStorage[p].text) \subseteq pinnedWhile[p]

====
